---- MODULE Spec2Model ----
(***************************************************************************)
(* Model of src/examples/controller_relative_to_tracker.cpp: the rigid     *)
(* transform algebra (PoseQuatToMatrix, InvertTransform,                   *)
(* MultiplyTransforms, ExtractPosition, ComputeDistance), the evaluator    *)
(* ComputeRelativePosition and the polling loop of main.                   *)
(*                                                                         *)
(* Numbers.  A C++ double is modelled by an exact number of the ring       *)
(* Z[sqrt 2] in units of 1/Scale: the pair <<a, b>> stands for             *)
(* (a + b*sqrt(2)) / Scale.  Every input the model draws (integer          *)
(* coordinates, quaternion components 0, +-1, +-1/2, +-sqrt(2)/2) and      *)
(* every product the code forms on them is exactly such a number, so the   *)
(* model computes what real arithmetic computes; the rounding of the       *)
(* double sqrt(2)/2 (about 1e-16) is below the model's resolution.         *)
(***************************************************************************)
EXTENDS Integers, FiniteSets, Sequences, TLC

\* Largest coordinate of a device position in the polling loop.
MaxCoord == 1
\* Largest coordinate of a translation drawn for the transform algebra.
MaxT == 1

\* Units per 1.0 of the number representation.
Scale == 2 * 2

---------------------------------------------------------------------------
\* Arithmetic of double values (exact, in Z[sqrt 2] / Scale)

Num(n) == <<n * Scale, 0>>
Zero == Num(0)
One == Num(1)
Two == Num(2)
Half == <<Scale \div 2, 0>>
HalfRoot2 == <<0, Scale \div 2>>

Add(u, v) == <<u[1] + v[1], u[2] + v[2]>>
Sub(u, v) == <<u[1] - v[1], u[2] - v[2]>>
Neg(u) == <<-u[1], -u[2]>>
Mul(u, v) ==
    << (u[1] * v[1] + 2 * u[2] * v[2]) \div Scale,
       (u[1] * v[2] + u[2] * v[1]) \div Scale >>

\* p <= b * sqrt(2), for integers p and b.
LeRoot2(p, b) ==
    IF p <= 0
    THEN (b >= 0) \/ (p * p >= 2 * b * b)
    ELSE (b > 0) /\ (p * p <= 2 * b * b)

\* sqrt of a non-negative value, truncated to the model's resolution:
\* the largest r with (r/Scale)^2 <= (a + b*sqrt 2)/Scale.
Sqrt(v) ==
    LET a == v[1]
        b == v[2]
        abs(n) == IF n < 0 THEN -n ELSE n
        hi == Scale * (abs(a) + 2 * abs(b)) + 1
        fits(r) == LeRoot2(r * r - Scale * a, Scale * b)
    IN  << CHOOSE r \in 0..hi : fits(r) /\ ~fits(r + 1), 0 >>

\* The value printed under std::fixed << std::setprecision(3): the number
\* of thousandths nearest to v, floor(1000*v + 1/2).
Fixed3(v) ==
    LET p == 2000 * v[1] + Scale
        q == 2000 * v[2]
        d == 2 * Scale
        lo == ((p + (IF q < 0 THEN 2 * q ELSE q)) \div d) - 1
        hi == ((p + (IF q < 0 THEN q ELSE 2 * q)) \div d) + 1
        below(m) == LeRoot2(m * d - p, q)
    IN  CHOOSE m \in lo..hi : below(m) /\ ~below(m + 1)

---------------------------------------------------------------------------
\* Vectors, quaternions and transforms, indexed as the C arrays are

Vec3(a, b, c) == (0 :> a) @@ (1 :> b) @@ (2 :> c)
Vec4(a, b, c, d) == (0 :> a) @@ (1 :> b) @@ (2 :> c) @@ (3 :> d)
ZeroVec == Vec3(Zero, Zero, Zero)

\* struct Transform { double matrix[3][4]; }
Transform(r0, r1, r2) == [matrix |-> (0 :> r0) @@ (1 :> r1) @@ (2 :> r2)]

PoseQuatToMatrixSignSlip(pose, quat) ==
    LET w == quat[0]
        x == quat[1]
        y == quat[2]
        z == quat[3]
    IN  Transform(
          Vec4(Sub(Sub(One, Mul(Mul(Two, y), y)), Mul(Mul(Two, z), z)),
               Add(Mul(Mul(Two, x), y), Mul(Mul(Two, w), z)),
               Add(Mul(Mul(Two, x), z), Mul(Mul(Two, w), y)),
               pose[0]),
          Vec4(Add(Mul(Mul(Two, x), y), Mul(Mul(Two, w), z)),
               Sub(Sub(One, Mul(Mul(Two, x), x)), Mul(Mul(Two, z), z)),
               Sub(Mul(Mul(Two, y), z), Mul(Mul(Two, w), x)),
               pose[1]),
          Vec4(Sub(Mul(Mul(Two, x), z), Mul(Mul(Two, w), y)),
               Add(Mul(Mul(Two, y), z), Mul(Mul(Two, w), x)),
               Sub(Sub(One, Mul(Mul(Two, x), x)), Mul(Mul(Two, y), y)),
               pose[2]))

PoseQuatToMatrix(pose, quat) ==
    LET w == quat[0]
        x == quat[1]
        y == quat[2]
        z == quat[3]
    IN  Transform(
          Vec4(Sub(Sub(One, Mul(Mul(Two, y), y)), Mul(Mul(Two, z), z)),
               Sub(Mul(Mul(Two, x), y), Mul(Mul(Two, w), z)),
               Add(Mul(Mul(Two, x), z), Mul(Mul(Two, w), y)),
               pose[0]),
          Vec4(Add(Mul(Mul(Two, x), y), Mul(Mul(Two, w), z)),
               Sub(Sub(One, Mul(Mul(Two, x), x)), Mul(Mul(Two, z), z)),
               Sub(Mul(Mul(Two, y), z), Mul(Mul(Two, w), x)),
               pose[1]),
          Vec4(Sub(Mul(Mul(Two, x), z), Mul(Mul(Two, w), y)),
               Add(Mul(Mul(Two, y), z), Mul(Mul(Two, w), x)),
               Sub(Sub(One, Mul(Mul(Two, x), x)), Mul(Mul(Two, y), y)),
               pose[2]))

\* InvertTransform negating the translation without rotating it.
InvertTransformKeepsTranslation(input) ==
    LET rot == [i \in 0..2 |-> [j \in 0..2 |-> input.matrix[j][i]]]
        col(i) == Sub(Zero, input.matrix[i][3])
    IN  [matrix |-> [i \in 0..2 |->
            [j \in 0..3 |-> IF j < 3 THEN rot[i][j] ELSE col(i)]]]

\* The translation loop of InvertTransform reading the input's rotation
\* where the code reads the transposed one.
InvertTransformOriginalR(input) ==
    LET rot == [i \in 0..2 |-> [j \in 0..2 |-> input.matrix[j][i]]]
        col(i) ==
            Sub(Sub(Sub(Zero,
                        Mul(input.matrix[i][0], input.matrix[0][3])),
                    Mul(input.matrix[i][1], input.matrix[1][3])),
                Mul(input.matrix[i][2], input.matrix[2][3]))
    IN  [matrix |-> [i \in 0..2 |->
            [j \in 0..3 |-> IF j < 3 THEN rot[i][j] ELSE col(i)]]]

InvertTransform(input) ==
    LET rot == [i \in 0..2 |-> [j \in 0..2 |-> input.matrix[j][i]]]
        col(i) ==
            Sub(Sub(Sub(Zero,
                        Mul(rot[i][0], input.matrix[0][3])),
                    Mul(rot[i][1], input.matrix[1][3])),
                Mul(rot[i][2], input.matrix[2][3]))
    IN  [matrix |-> [i \in 0..2 |->
            [j \in 0..3 |-> IF j < 3 THEN rot[i][j] ELSE col(i)]]]

\* MultiplyTransforms with the operand roles exchanged (t2 * t1).
MultiplyTransformsSwapped(t1, t2) ==
    LET rot(i, j) ==
            Add(Add(Add(Zero,
                        Mul(t2.matrix[i][0], t1.matrix[0][j])),
                    Mul(t2.matrix[i][1], t1.matrix[1][j])),
                Mul(t2.matrix[i][2], t1.matrix[2][j]))
        col(i) ==
            Add(Add(Add(t2.matrix[i][3],
                        Mul(t2.matrix[i][0], t1.matrix[0][3])),
                    Mul(t2.matrix[i][1], t1.matrix[1][3])),
                Mul(t2.matrix[i][2], t1.matrix[2][3]))
    IN  [matrix |-> [i \in 0..2 |->
            [j \in 0..3 |-> IF j < 3 THEN rot(i, j) ELSE col(i)]]]

MultiplyTransforms(t1, t2) ==
    LET rot(i, j) ==
            Add(Add(Add(Zero,
                        Mul(t1.matrix[i][0], t2.matrix[0][j])),
                    Mul(t1.matrix[i][1], t2.matrix[1][j])),
                Mul(t1.matrix[i][2], t2.matrix[2][j]))
        col(i) ==
            Add(Add(Add(t1.matrix[i][3],
                        Mul(t1.matrix[i][0], t2.matrix[0][3])),
                    Mul(t1.matrix[i][1], t2.matrix[1][3])),
                Mul(t1.matrix[i][2], t2.matrix[2][3]))
    IN  [matrix |-> [i \in 0..2 |->
            [j \in 0..3 |-> IF j < 3 THEN rot(i, j) ELSE col(i)]]]

\* ExtractPosition reading the column before the translation column.
ExtractPositionOffByOne(transform) ==
    Vec3(transform.matrix[0][2], transform.matrix[1][2], transform.matrix[2][2])

ExtractPosition(transform) ==
    Vec3(transform.matrix[0][3], transform.matrix[1][3], transform.matrix[2][3])

ComputeDistance(relative_position) ==
    Sqrt(Add(Add(Mul(relative_position[0], relative_position[0]),
                 Mul(relative_position[1], relative_position[1])),
             Mul(relative_position[2], relative_position[2])))

---------------------------------------------------------------------------
\* Linear algebra the properties are stated in

Rot(T) == [i \in 0..2 |-> [j \in 0..2 |-> T.matrix[i][j]]]
Trans(T) == [i \in 0..2 |-> T.matrix[i][3]]
Dot3(u, v) == Add(Add(Mul(u[0], v[0]), Mul(u[1], v[1])), Mul(u[2], v[2]))
Transpose(R) == [i \in 0..2 |-> [j \in 0..2 |-> R[j][i]]]
MatMul(R1, R2) == [i \in 0..2 |-> [j \in 0..2 |-> Dot3(R1[i], Transpose(R2)[j])]]
MatVec(R, v) == [i \in 0..2 |-> Dot3(R[i], v)]
VecAdd(u, v) == [i \in 0..2 |-> Add(u[i], v[i])]
VecSub(u, v) == [i \in 0..2 |-> Sub(u[i], v[i])]
VecNeg(u) == [i \in 0..2 |-> Neg(u[i])]
Identity3 == [i \in 0..2 |-> [j \in 0..2 |-> IF i = j THEN One ELSE Zero]]
Det(R) ==
    Add(Sub(Mul(R[0][0], Sub(Mul(R[1][1], R[2][2]), Mul(R[1][2], R[2][1]))),
            Mul(R[0][1], Sub(Mul(R[1][0], R[2][2]), Mul(R[1][2], R[2][0])))),
        Mul(R[0][2], Sub(Mul(R[1][0], R[2][1]), Mul(R[1][1], R[2][0]))))
IsRotation(R) == MatMul(Transpose(R), R) = Identity3 /\ Det(R) = One
IsUnit(q) ==
    Add(Add(Add(Mul(q[0], q[0]), Mul(q[1], q[1])), Mul(q[2], q[2])),
        Mul(q[3], q[3])) = One
AsTransform(R, t) ==
    [matrix |-> [i \in 0..2 |-> [j \in 0..3 |-> IF j < 3 THEN R[i][j] ELSE t[i]]]]
IdentityT == [matrix |-> [i \in 0..2 |-> [j \in 0..3 |-> IF i = j THEN One ELSE Zero]]]

---------------------------------------------------------------------------
\* Input domains

Signs == {-1, 1}
IdentityQuat == Vec4(One, Zero, Zero, Zero)
\* 90 degrees about Z: (sqrt(2)/2, 0, 0, sqrt(2)/2)
QuarterTurnZ == Vec4(HalfRoot2, Zero, Zero, HalfRoot2)

\* The 48 unit quaternions of the rotations of the cube.
AxisQuats ==
    {[i \in 0..3 |-> IF i = k THEN Num(s) ELSE Zero] : k \in 0..3, s \in Signs}
HalfQuats ==
    {[i \in 0..3 |-> <<f[i] * Half[1], 0>>] : f \in [0..3 -> Signs]}
DiagQuats ==
    {[i \in 0..3 |-> IF i = kl[1] THEN <<0, st[1] * HalfRoot2[2]>>
                     ELSE IF i = kl[2] THEN <<0, st[2] * HalfRoot2[2]>>
                     ELSE Zero] :
        kl \in {c \in (0..3) \X (0..3) : c[1] < c[2]}, st \in Signs \X Signs}
UnitQuats == AxisQuats \cup HalfQuats \cup DiagQuats
NonUnitQuats ==
    { Vec4(One, One, Zero, Zero), Vec4(Zero, Zero, Zero, Zero),
      Vec4(Half, Zero, One, Neg(One)) }

Cube(lo, hi) == {Vec3(Num(x), Num(y), Num(z)) : x \in lo..hi, y \in lo..hi, z \in lo..hi}

\* Rotation blocks for the algebra: the 48 signed permutation matrices (24
\* rotations, 24 reflections) and four matrices that are not orthonormal.
Perms == {f \in [0..2 -> 0..2] : {f[i] : i \in 0..2} = 0..2}
SignedPerms ==
    {[i \in 0..2 |-> [j \in 0..2 |-> IF j = f[i] THEN Num(s[i]) ELSE Zero]] :
        f \in Perms, s \in [0..2 -> Signs]}
Shear == Vec3(Vec3(One, One, Zero), Vec3(Zero, One, Zero), Vec3(Zero, Zero, One))
General == Vec3(Vec3(One, Two, Zero), Vec3(Zero, One, Neg(One)), Vec3(One, Zero, Two))
SkewBlocks ==
    { Shear, General,
      [i \in 0..2 |-> [j \in 0..2 |-> IF i = j THEN Two ELSE Zero]],
      [i \in 0..2 |-> [j \in 0..2 |-> IF i = j THEN Half ELSE Zero]] }
BlocksA == SignedPerms \cup SkewBlocks
QuarterTurnZBlock == Vec3(Vec3(Zero, Neg(One), Zero), Vec3(One, Zero, Zero), Vec3(Zero, Zero, One))
ThirdTurnBlock == Vec3(Vec3(Zero, Zero, One), Vec3(One, Zero, Zero), Vec3(Zero, One, Zero))
MirrorBlock == Vec3(Vec3(Neg(One), Zero, Zero), Vec3(Zero, One, Zero), Vec3(Zero, Zero, One))
BlocksB == {Identity3, QuarterTurnZBlock, ThirdTurnBlock, MirrorBlock, Shear, General}

---------------------------------------------------------------------------
VARIABLES
    \* main and ComputeRelativePosition
    pc,                  \* position in main
    detected,            \* provider: names of the detected devices
    snapshot,            \* provider: pose sample per device as of the last Update
    controller_success, tracker_success,
    controller_pose, controller_quat, tracker_pose, tracker_quat,
    T_world_controller, T_world_tracker, T_tracker_world, T_tracker_controller,
    relative_position, distance,
    stdout,              \* lines written by the current loop iteration
    \* history of the loop
    updates,             \* Update calls since the last evaluation began
    updatesAtController, updatesAtTracker,
    earlier,             \* one earlier evaluation: provider answers and printed line
    \* transform algebra applied to drawn inputs
    op, in_A, in_B, in_pose, in_quat, result, result2

loopVars ==
    <<pc, detected, snapshot, controller_success, tracker_success,
      controller_pose, controller_quat, tracker_pose, tracker_quat,
      T_world_controller, T_world_tracker, T_tracker_world, T_tracker_controller,
      relative_position, distance, stdout, updates,
      updatesAtController, updatesAtTracker>>
algVars == <<op, in_A, in_B, in_pose, in_quat, result, result2>>
vars == <<loopVars, earlier, algVars>>

---------------------------------------------------------------------------
\* The transform algebra on drawn inputs

NoTransform == [matrix |-> <<>>]

AlgIdle ==
    /\ op = "idle" /\ in_A = IdentityT /\ in_B = IdentityT
    /\ in_pose = ZeroVec /\ in_quat = IdentityQuat
    /\ result = NoTransform /\ result2 = NoTransform

AlgInit ==
    /\ result = NoTransform /\ result2 = NoTransform
    /\ \/ /\ op = "quat_in"
          /\ in_pose \in Cube(-1, MaxT)
          /\ in_quat \in UnitQuats \cup NonUnitQuats
          /\ in_A = IdentityT /\ in_B = IdentityT
       \/ /\ op = "one_in"
          /\ in_A \in {AsTransform(R, t) : R \in BlocksA, t \in Cube(-1, MaxT)}
          /\ in_B = IdentityT
          /\ in_pose = ZeroVec /\ in_quat = IdentityQuat
       \/ /\ op = "two_in"
          /\ in_A \in {AsTransform(R, t) : R \in BlocksA, t \in Cube(0, MaxT)}
          /\ in_B \in {AsTransform(R, t) : R \in BlocksB, t \in Cube(0, MaxT)}
          /\ in_pose = ZeroVec /\ in_quat = IdentityQuat

Encode ==
    /\ op = "quat_in"
    /\ op' = "encoded"
    /\ result' = PoseQuatToMatrix(in_pose, in_quat)
    /\ UNCHANGED <<in_A, in_B, in_pose, in_quat, result2>>
    /\ UNCHANGED <<loopVars, earlier>>

Invert ==
    /\ op = "one_in"
    /\ op' = "inverted"
    /\ result' = InvertTransform(in_A)
    /\ UNCHANGED <<in_A, in_B, in_pose, in_quat, result2>>
    /\ UNCHANGED <<loopVars, earlier>>

RoundTrip ==
    /\ op = "one_in"
    /\ op' = "round_trip"
    /\ result' = MultiplyTransforms(in_A, InvertTransform(in_A))
    /\ result2' = MultiplyTransforms(InvertTransform(in_A), in_A)
    /\ UNCHANGED <<in_A, in_B, in_pose, in_quat>>
    /\ UNCHANGED <<loopVars, earlier>>

Compose ==
    /\ op = "two_in"
    /\ op' = "composed"
    /\ result' = MultiplyTransforms(in_A, in_B)
    /\ UNCHANGED <<in_A, in_B, in_pose, in_quat, result2>>
    /\ UNCHANGED <<loopVars, earlier>>

---------------------------------------------------------------------------
\* The pose provider (CHtc_Vive_Tracker), as the evaluator sees it

controller_name == "controller_1"
tracker_name == "tracker_1"
DeviceNames == {controller_name, tracker_name}

Untracked == [success |-> FALSE]
Sample(p, q) == [success |-> TRUE, pose |-> p, quat |-> q]

\* GetDevicePoseQuaternion(name, pose, quat): the sample of the snapshot
\* taken by the last Update, or failure when the device is not tracked.
GetDevicePoseQuaternion(snap, name) == snap[name]

\* GetAllDeviceNames().size(): one entry besides the detected devices.
AllDeviceNamesSize(d) == 1 + Cardinality(d)

\* Samples the provider reports in the polling loop.
ThirdTurn == Vec4(Half, Half, Half, Half)
HalfTurnX == Vec4(Zero, One, Zero, Zero)
ScenarioPosition == Vec3(Num(1), Num(2), Num(3))
ControllerSamples ==
    {Untracked} \cup
    {Sample(p, q) : p \in {ZeroVec, Vec3(One, Zero, Zero), ScenarioPosition},
                    q \in {IdentityQuat, QuarterTurnZ}}
TrackerSamples ==
    {Untracked} \cup
    {Sample(p, q) : p \in Cube(0, MaxCoord) \cup {ScenarioPosition},
                    q \in {IdentityQuat, QuarterTurnZ, ThirdTurn, HalfTurnX}}
FewControllerSamples ==
    {Untracked, Sample(ZeroVec, IdentityQuat), Sample(Vec3(One, Zero, Zero), IdentityQuat)}
FewTrackerSamples ==
    {Untracked, Sample(ZeroVec, IdentityQuat), Sample(ZeroVec, QuarterTurnZ)}

---------------------------------------------------------------------------
\* main and ComputeRelativePosition

\* A local that is out of scope or not yet written.
Indeterminate == <<>>

ErrorLine == [text |-> "Error: Could not get poses for both devices"]
StatusLine(position, d) ==
    [text |-> "Controller position relative to Tracker",
     X |-> Fixed3(position[0]), Y |-> Fixed3(position[1]),
     Z |-> Fixed3(position[2]), Distance |-> Fixed3(d)]

\* The early return of ComputeRelativePosition taken only when both fail.
LookupFailedBoth(cs, ts) == ~cs /\ ~ts
\* if (!controller_success || !tracker_success)
LookupFailed(cs, ts) == ~cs \/ ~ts

\* The failure branch leaving the output buffer as it found it.
FailureOutputStale(buffer) == buffer
\* relative_position[0] = relative_position[1] = relative_position[2] = 0.0
FailureOutput(buffer) == ZeroVec

\* The loop calling Update once, before the loop.
LoopHeadSkipsUpdate == "query_controller"
\* while (true) { vt.Update(); ... }
LoopHead == "update"

LoopLabels ==
    {"update", "query_controller", "query_tracker", "branch", "encode",
     "invert", "compose", "extract", "distance", "print", "sleep"}

NoEarlier == [valid |-> FALSE]

LoopInit ==
    /\ pc = "args"
    /\ detected = {}
    /\ snapshot = [n \in DeviceNames |-> Untracked]
    /\ controller_success = FALSE /\ tracker_success = FALSE
    /\ controller_pose = Indeterminate /\ controller_quat = Indeterminate
    /\ tracker_pose = Indeterminate /\ tracker_quat = Indeterminate
    /\ T_world_controller = Indeterminate /\ T_world_tracker = Indeterminate
    /\ T_tracker_world = Indeterminate /\ T_tracker_controller = Indeterminate
    /\ relative_position = ZeroVec /\ distance = Zero
    /\ stdout = <<>>
    /\ updates = 0 /\ updatesAtController = 0 /\ updatesAtTracker = 0
    /\ earlier = NoEarlier

queryVars ==
    <<controller_success, tracker_success, controller_pose, controller_quat,
      tracker_pose, tracker_quat>>
transformVars ==
    <<T_world_controller, T_world_tracker, T_tracker_world, T_tracker_controller>>
countVars == <<updates, updatesAtController, updatesAtTracker>>
Aside == UNCHANGED <<earlier, algVars>>

\* Argument parsing: -h prints the usage and returns 0.
ParseArgs ==
    /\ pc = "args"
    /\ \E help \in BOOLEAN : pc' = IF help THEN "return_0" ELSE "init_vr"
    /\ UNCHANGED <<detected, snapshot, queryVars, transformVars,
                   relative_position, distance, stdout, countVars>>
    /\ Aside

InitializeVR ==
    /\ pc = "init_vr"
    /\ \E ok \in BOOLEAN, d \in SUBSET DeviceNames :
          IF ok
          THEN detected' = d /\ pc' = "check_names"
          ELSE detected' = detected /\ pc' = "return_1"
    /\ UNCHANGED <<snapshot, queryVars, transformVars,
                   relative_position, distance, stdout, countVars>>
    /\ Aside

CheckDeviceNames ==
    /\ pc = "check_names"
    /\ pc' = IF AllDeviceNamesSize(detected) = 1 THEN "return_1" ELSE "check_controller"
    /\ UNCHANGED <<detected, snapshot, queryVars, transformVars,
                   relative_position, distance, stdout, countVars>>
    /\ Aside

CheckController ==
    /\ pc = "check_controller"
    /\ pc' = IF controller_name \notin detected THEN "return_1" ELSE "check_tracker"
    /\ UNCHANGED <<detected, snapshot, queryVars, transformVars,
                   relative_position, distance, stdout, countVars>>
    /\ Aside

CheckTracker ==
    /\ pc = "check_tracker"
    /\ pc' = IF tracker_name \notin detected THEN "return_1" ELSE LoopHead
    /\ UNCHANGED <<detected, snapshot, queryVars, transformVars,
                   relative_position, distance, stdout, countVars>>
    /\ Aside

\* vt.Update(): the provider takes a new snapshot of both devices.
Update(CS, TS) ==
    /\ pc = "update"
    /\ \E c \in CS, t \in TS :
          snapshot' = (controller_name :> c) @@ (tracker_name :> t)
    /\ updates' = updates + 1
    /\ stdout' = <<>>
    /\ pc' = "query_controller"
    /\ UNCHANGED <<detected, queryVars, transformVars, relative_position,
                   distance, updatesAtController, updatesAtTracker>>
    /\ Aside

QueryController ==
    /\ pc = "query_controller"
    /\ LET got == GetDevicePoseQuaternion(snapshot, controller_name)
       IN  /\ controller_success' = got.success
           /\ controller_pose' = IF got.success THEN got.pose ELSE Indeterminate
           /\ controller_quat' = IF got.success THEN got.quat ELSE Indeterminate
    /\ updatesAtController' = updates
    /\ updates' = 0
    /\ pc' = "query_tracker"
    /\ UNCHANGED <<detected, snapshot, tracker_success, tracker_pose, tracker_quat,
                   transformVars, relative_position, distance, stdout,
                   updatesAtTracker>>
    /\ Aside

QueryTracker ==
    /\ pc = "query_tracker"
    /\ LET got == GetDevicePoseQuaternion(snapshot, tracker_name)
       IN  /\ tracker_success' = got.success
           /\ tracker_pose' = IF got.success THEN got.pose ELSE Indeterminate
           /\ tracker_quat' = IF got.success THEN got.quat ELSE Indeterminate
    /\ updatesAtTracker' = updates
    /\ pc' = "branch"
    /\ UNCHANGED <<detected, snapshot, controller_success, controller_pose,
                   controller_quat, transformVars, relative_position, distance,
                   stdout, updates, updatesAtController>>
    /\ Aside

\* The locals of ComputeRelativePosition go out of scope.
Return ==
    /\ controller_pose' = Indeterminate /\ controller_quat' = Indeterminate
    /\ tracker_pose' = Indeterminate /\ tracker_quat' = Indeterminate
    /\ T_world_controller' = Indeterminate /\ T_world_tracker' = Indeterminate
    /\ T_tracker_world' = Indeterminate /\ T_tracker_controller' = Indeterminate
    /\ pc' = "distance"

FailureReturn ==
    /\ pc = "branch"
    /\ LookupFailed(controller_success, tracker_success)
    /\ stdout' = Append(stdout, ErrorLine)
    /\ relative_position' = FailureOutput(relative_position)
    /\ Return
    /\ UNCHANGED <<detected, snapshot, controller_success, tracker_success,
                   distance, countVars>>
    /\ Aside

Proceed ==
    /\ pc = "branch"
    /\ ~LookupFailed(controller_success, tracker_success)
    /\ pc' = "encode"
    /\ UNCHANGED <<detected, snapshot, queryVars, transformVars,
                   relative_position, distance, stdout, countVars>>
    /\ Aside

EncodePoses ==
    /\ pc = "encode"
    /\ T_world_controller' = PoseQuatToMatrix(controller_pose, controller_quat)
    /\ T_world_tracker' = PoseQuatToMatrix(tracker_pose, tracker_quat)
    /\ pc' = "invert"
    /\ UNCHANGED <<detected, snapshot, queryVars, T_tracker_world,
                   T_tracker_controller, relative_position, distance, stdout,
                   countVars>>
    /\ Aside

InvertTracker ==
    /\ pc = "invert"
    /\ T_tracker_world' = InvertTransform(T_world_tracker)
    /\ pc' = "compose"
    /\ UNCHANGED <<detected, snapshot, queryVars, T_world_controller,
                   T_world_tracker, T_tracker_controller, relative_position,
                   distance, stdout, countVars>>
    /\ Aside

ComposeRelative ==
    /\ pc = "compose"
    /\ T_tracker_controller' = MultiplyTransforms(T_tracker_world, T_world_controller)
    /\ pc' = "extract"
    /\ UNCHANGED <<detected, snapshot, queryVars, T_world_controller,
                   T_world_tracker, T_tracker_world, relative_position,
                   distance, stdout, countVars>>
    /\ Aside

ExtractReturn ==
    /\ pc = "extract"
    /\ relative_position' = ExtractPosition(T_tracker_controller)
    /\ Return
    /\ UNCHANGED <<detected, snapshot, controller_success, tracker_success,
                   distance, stdout, countVars>>
    /\ Aside

Distance ==
    /\ pc = "distance"
    /\ distance' = ComputeDistance(relative_position)
    /\ pc' = "print"
    /\ UNCHANGED <<detected, snapshot, queryVars, transformVars,
                   relative_position, stdout, countVars>>
    /\ Aside

PrintResults ==
    /\ pc = "print"
    /\ stdout' = Append(stdout, StatusLine(relative_position, distance))
    /\ pc' = "sleep"
    /\ UNCHANGED <<detected, snapshot, queryVars, transformVars,
                   relative_position, distance, countVars>>
    /\ Aside

\* What an evaluation received from the provider and what it printed.
ThisCall ==
    [valid |-> TRUE,
     controller |-> snapshot[controller_name],
     tracker |-> snapshot[tracker_name],
     stdout |-> stdout]

\* usleep(100000) and back to the head of the loop.
Sleep ==
    /\ pc = "sleep"
    /\ pc' = LoopHead
    /\ UNCHANGED <<detected, snapshot, queryVars, transformVars,
                   relative_position, distance, stdout, countVars>>
    /\ Aside

\* Sleep, with the evaluation that ends either remembered or not.
SleepRemembering ==
    /\ pc = "sleep"
    /\ pc' = LoopHead
    /\ earlier' \in {earlier, ThisCall}
    /\ UNCHANGED <<detected, snapshot, queryVars, transformVars,
                   relative_position, distance, stdout, countVars>>
    /\ UNCHANGED algVars

---------------------------------------------------------------------------
\* Specifications

Startup == ParseArgs \/ InitializeVR \/ CheckDeviceNames \/ CheckController \/ CheckTracker
Evaluate ==
    \/ QueryController \/ QueryTracker \/ FailureReturn \/ Proceed
    \/ EncodePoses \/ InvertTracker \/ ComposeRelative \/ ExtractReturn

\* The program: main with the provider reporting any of the loop's samples.
Init == LoopInit /\ AlgIdle
Next ==
    \/ Startup
    \/ Update(ControllerSamples, TrackerSamples)
    \/ Evaluate \/ Distance \/ PrintResults \/ Sleep
Spec == Init /\ [][Next]_vars

\* The program over a few samples, remembering one earlier evaluation.
NextCalls ==
    \/ Startup
    \/ Update(FewControllerSamples, FewTrackerSamples)
    \/ Evaluate \/ Distance \/ PrintResults \/ SleepRemembering
SpecCalls == Init /\ [][NextCalls]_vars

\* The transform algebra applied to drawn inputs.
InitAlgebra == LoopInit /\ AlgInit
NextAlgebra == Encode \/ Invert \/ RoundTrip \/ Compose
SpecAlgebra == InitAlgebra /\ [][NextAlgebra]_vars

---------------------------------------------------------------------------
\* Properties of main and ComputeRelativePosition

BothTracked == snapshot[controller_name].success /\ snapshot[tracker_name].success
\* ComputeRelativePosition has returned in this iteration.
Returned == pc \in {"distance", "print", "sleep"}
\* ComputeDistance has returned in this iteration.
Measured == pc \in {"print", "sleep"}
Printed == pc = "sleep"

\* C1: when the provider reports failure for the controller query, the
\* tracker query or both, the call ends in a failure outcome and produces
\* no relative position and no distance: the iteration writes the error
\* and no line carrying a position or a distance.
C1_FailureProducesNoValue ==
    (Printed /\ ~BothTracked) =>
        \A i \in DOMAIN stdout : stdout[i] = ErrorLine

PureTranslationScenario ==
    (controller_name :> Sample(Vec3(One, Zero, Zero), IdentityQuat)) @@
    (tracker_name :> Sample(ZeroVec, IdentityQuat))
QuarterTurnScenario ==
    (controller_name :> Sample(Vec3(One, Zero, Zero), IdentityQuat)) @@
    (tracker_name :> Sample(ZeroVec, QuarterTurnZ))

\* C2: for two successfully obtained samples the call returns the
\* translation of MultiplyTransforms(InvertTransform(Encode(p_t, q_t)),
\* Encode(p_c, q_c)), which is R_t^T * (p_c - p_t); primary (1,0,0) and
\* secondary (0,0,0), both identity, give (1,0,0) at distance 1, and the
\* secondary rotated 90 degrees about Z gives (0,-1,0) at distance 1.
C2_RelativePosition ==
    LET c == snapshot[controller_name]
        t == snapshot[tracker_name]
    IN  /\ (Returned /\ BothTracked) =>
              /\ relative_position =
                    Trans(MultiplyTransforms(
                        InvertTransform(PoseQuatToMatrix(t.pose, t.quat)),
                        PoseQuatToMatrix(c.pose, c.quat)))
              /\ relative_position =
                    MatVec(Transpose(Rot(PoseQuatToMatrix(t.pose, t.quat))),
                           VecSub(c.pose, t.pose))
        /\ (Measured /\ snapshot = PureTranslationScenario) =>
              relative_position = Vec3(One, Zero, Zero) /\ distance = One
        /\ (Measured /\ snapshot = QuarterTurnScenario) =>
              relative_position = Vec3(Zero, Neg(One), Zero) /\ distance = One

C2_Witness ==
    /\ Printed /\ snapshot = QuarterTurnScenario
    /\ relative_position = Vec3(Zero, Neg(One), Zero)

\* C4: when both identifiers resolve to the same successfully tracked
\* sample, the relative position is the zero vector and its distance is 0,
\* for every position and unit quaternion of the sample.
C4_SelfRelative ==
    (BothTracked /\ snapshot[controller_name] = snapshot[tracker_name]) =>
        /\ Returned => relative_position = ZeroVec
        /\ Measured => distance = Zero

C4_Witness ==
    /\ Printed /\ BothTracked
    /\ snapshot[controller_name] = snapshot[tracker_name]
    /\ snapshot[tracker_name].pose # ZeroVec
    /\ snapshot[tracker_name].quat = QuarterTurnZ
    /\ stdout = <<StatusLine(ZeroVec, Zero)>>

\* The position a successful call returns for two devices at the sample s.
CoincidentOutput(s) ==
    ExtractPosition(MultiplyTransforms(
        InvertTransform(PoseQuatToMatrix(s.pose, s.quat)),
        PoseQuatToMatrix(s.pose, s.quat)))

\* C9: when either lookup fails the call writes 0.0 to all three
\* coordinates and returns without encoding, inverting or composing; the
\* caller's distance is then 0, and the output is the one a successful
\* call on two coincident devices gives.
C9_ZeroOnFailure ==
    /\ pc \in {"encode", "invert", "compose", "extract"} =>
          controller_success /\ tracker_success
    /\ (Returned /\ ~BothTracked) =>
          /\ relative_position = ZeroVec
          /\ \A s \in TrackerSamples \ {Untracked} :
                relative_position = CoincidentOutput(s)
    /\ (Measured /\ ~BothTracked) => distance = Zero
    /\ (Printed /\ ~BothTracked) =>
          stdout = <<ErrorLine, StatusLine(ZeroVec, Zero)>>

C9_Witness ==
    /\ Printed
    /\ snapshot[controller_name].success /\ ~snapshot[tracker_name].success
    /\ relative_position = ZeroVec /\ distance = Zero

\* C10: every evaluation follows exactly one Update since the evaluation
\* before it, no Update falls between the two queries of an evaluation, so
\* both samples are those of one snapshot; once entered, the loop is never
\* left.
C10_OneUpdatePerEvaluation ==
    /\ pc \in (LoopLabels \ {"update", "query_controller"}) =>
          updatesAtController = 1
    /\ pc \in (LoopLabels \ {"update", "query_controller", "query_tracker"}) =>
          updatesAtTracker = 0
    /\ pc = "branch" =>
          /\ controller_success = snapshot[controller_name].success
          /\ tracker_success = snapshot[tracker_name].success
          /\ controller_success =>
                /\ controller_pose = snapshot[controller_name].pose
                /\ controller_quat = snapshot[controller_name].quat
          /\ tracker_success =>
                /\ tracker_pose = snapshot[tracker_name].pose
                /\ tracker_quat = snapshot[tracker_name].quat
C10_PollingLoop ==
    /\ []C10_OneUpdatePerEvaluation
    /\ [][(pc \in LoopLabels) => (pc' \in LoopLabels)]_vars

\* A later evaluation (an earlier one left its result) with both queries done.
C10_Witness ==
    /\ pc = "branch" /\ BothTracked
    /\ relative_position # ZeroVec
    /\ updatesAtController = 1 /\ updatesAtTracker = 0

\* C8: what a call reports depends only on the two provider answers of
\* that call: a call with the answers of an earlier call reports what that
\* call reported, and a failing call does not report the position an
\* earlier successful call computed.
C8_NoHiddenState ==
    (Printed /\ earlier.valid) =>
        /\ (earlier.controller = snapshot[controller_name]
              /\ earlier.tracker = snapshot[tracker_name]) =>
                 stdout = earlier.stdout
        /\ (/\ ~BothTracked
            /\ earlier.controller.success /\ earlier.tracker.success
            /\ earlier.stdout # <<StatusLine(ZeroVec, Zero)>>) =>
                 stdout[Len(stdout)] # earlier.stdout[Len(earlier.stdout)]

C8_Witness ==
    /\ Printed /\ earlier.valid /\ ~BothTracked
    /\ earlier.controller.success /\ earlier.tracker.success
    /\ earlier.stdout # <<StatusLine(ZeroVec, Zero)>>
    /\ stdout = <<ErrorLine, StatusLine(ZeroVec, Zero)>>

---------------------------------------------------------------------------
\* Properties of the transform algebra

\* C3: for a rigid transform T (rotation block orthonormal, determinant
\* +1), MultiplyTransforms(T, InvertTransform(T)) and
\* MultiplyTransforms(InvertTransform(T), T) are the identity transform.
C3_RoundTripIdentity ==
    (op = "round_trip" /\ IsRotation(Rot(in_A))) =>
        result = IdentityT /\ result2 = IdentityT

C3_Witness ==
    /\ op = "round_trip" /\ IsRotation(Rot(in_A))
    /\ Rot(in_A) # Transpose(Rot(in_A))
    /\ Trans(in_A) = Vec3(One, Neg(One), Zero)
    /\ result = IdentityT /\ result2 = IdentityT

\* The translation of the composition taken in the wrong order.
WrongOrderTranslation == VecAdd(MatVec(Rot(in_B), Trans(in_A)), Trans(in_B))

\* C5: MultiplyTransforms(A, B) has rotation R_A * R_B and translation
\* t_A + R_A * t_B, not R_B * t_A + t_B where the two differ; swapping the
\* arguments changes the result whenever the two orders differ.
C5_ComposeOrder ==
    op = "composed" =>
        LET rotation == MatMul(Rot(in_A), Rot(in_B))
            translation == VecAdd(Trans(in_A), MatVec(Rot(in_A), Trans(in_B)))
        IN  /\ Rot(result) = rotation
            /\ Trans(result) = translation
            /\ WrongOrderTranslation # translation =>
                  Trans(result) # WrongOrderTranslation
            /\ (WrongOrderTranslation # translation
                  \/ MatMul(Rot(in_B), Rot(in_A)) # rotation) =>
                  MultiplyTransforms(in_B, in_A) # result

C5_Witness ==
    /\ op = "composed"
    /\ ~IsRotation(Rot(in_A))
    /\ Trans(result) # WrongOrderTranslation
    /\ MatMul(Rot(in_B), Rot(in_A)) # Rot(result)

\* C6: InvertTransform([R | t]) has rotation R^T and translation
\* -R^T * t, each coordinate the negated dot product of the output's
\* rotation row with t (the transposed rotation, not R).
C6_InvertTransposed ==
    op = "inverted" =>
        /\ Rot(result) = Transpose(Rot(in_A))
        /\ Trans(result) = VecNeg(MatVec(Transpose(Rot(in_A)), Trans(in_A)))
        /\ \A i \in 0..2 :
              result.matrix[i][3] = Neg(Dot3(Rot(result)[i], Trans(in_A)))

C6_Witness ==
    /\ op = "inverted"
    /\ Trans(result) # VecNeg(MatVec(Rot(in_A), Trans(in_A)))
    /\ Trans(result) = VecNeg(MatVec(Transpose(Rot(in_A)), Trans(in_A)))

\* C7: for a unit quaternion and any position, PoseQuatToMatrix gives a
\* rotation block R with R^T * R = I and det(R) = +1 and the position,
\* unchanged, as the 4th column.
C7_EncoderOrthonormal ==
    (op = "encoded" /\ IsUnit(in_quat)) =>
        /\ MatMul(Transpose(Rot(result)), Rot(result)) = Identity3
        /\ Det(Rot(result)) = One
        /\ Trans(result) = in_pose

C7_Witness ==
    /\ op = "encoded" /\ in_quat = QuarterTurnZ
    /\ in_pose = Vec3(One, Neg(One), Zero)
    /\ Rot(result) = QuarterTurnZBlock

====
